---- MODULE Spec2Model ----
(***************************************************************************)
(* Record store of src/src/index.ts: three StableBTreeMap collections      *)
(* (services, reviews, users) and the canister methods that read and       *)
(* write them.                                                             *)
(*                                                                         *)
(* The file declares most methods twice: a first set (lines 46-331) that   *)
(* takes the caller Principal, validates and authorizes, and a second set  *)
(* (lines 408-590) that does neither.  Which declaration a build exports   *)
(* is not determined by the source, so both are actions of the model; the  *)
(* second declaration of a method m is named m_2.                          *)
(*                                                                         *)
(* A method is an operator from the collections it reads to its reply:     *)
(* the Result it returns (tag and value) and the collections it leaves     *)
(* behind.  The action of a method commits the reply of one call.  Every   *)
(* call has a caller (ic.caller()); the second declarations do not read    *)
(* it.                                                                     *)
(***************************************************************************)
EXTENDS Integers, Sequences, FiniteSets, TLC

\* ---------------------------------------------------------------- bounds
\* calls of one run; ic.time() is the number of calls made so far
MaxTime == 3

\* ------------------------------------------------------------ input sets
\* uuid strings, in key order of the B-tree
IdName == <<"u1", "u2", "u3", "u4", "u5", "u6">>
\* a run of MaxTime calls draws at most MaxTime uuids
Ids == {IdName[i] : i \in 1..MaxTime}
\* Principal.toString() of the callers; never a uuid
Principals == {"p1", "p2"}
None == <<>>
Some(t) == <<t>>

Fields == {"name", "category", "provider", "date", "startTime", "endTime",
           "location", "description"}

Payload1 == [name |-> "n1", category |-> "c1", provider |-> "p1",
             date |-> "2024-01-15", startTime |-> "09:00", endTime |-> "10:00",
             location |-> "l1", description |-> "d1"]
Payload2 == [name |-> "n2", category |-> "c2", provider |-> "p2",
             date |-> "2024-02-01", startTime |-> "11:00", endTime |-> "12:00",
             location |-> "l2", description |-> "d2"]
\* the valid payloads, and Payload1 with one text field empty
ServicePayloads == {Payload1, Payload2, [Payload1 EXCEPT !.description = ""]}
Locations == {"l3"}
Descriptions == {"d3"}

Ratings == {-1, 0, 3, 5, 6}
ReviewedIds == {"u1", "u2"}
ReviewPayloads ==
    {[serviceId |-> s, userId |-> "p1", rating |-> r, comment |-> "ok"] :
        s \in ReviewedIds, r \in Ratings}
      \cup {[serviceId |-> "", userId |-> "p1", rating |-> 3, comment |-> "ok"],
            [serviceId |-> "u1", userId |-> "p1", rating |-> 3, comment |-> ""]}

UserPayloads == {[username |-> "alice", email |-> "a@x"],
                 [username |-> "", email |-> "b@x"]}

\* ----------------------------------------------------------------- state
\* issued: the uuids drawn so far; removed: the ids deleteService has removed
VARIABLES serviceStorage, reviewStorage, userStorage, now, issued, removed

vars == <<serviceStorage, reviewStorage, userStorage, now, issued, removed>>

\* ---------------------------------------------------------- StableBTreeMap
insert(map, key, value) ==
    [k \in DOMAIN map \cup {key} |-> IF k = key THEN value ELSE map[k]]

remove(map, key) == [k \in DOMAIN map \ {key} |-> map[k]]

containsKey(map, key) == key \in DOMAIN map

RECURSIVE valuesFrom(_, _)
valuesFrom(map, i) ==
    IF i > Len(IdName) THEN <<>>
    ELSE (IF IdName[i] \in DOMAIN map THEN <<map[IdName[i]]>> ELSE <<>>)
           \o valuesFrom(map, i + 1)

\* values(): the stored records in key order
values(map) == valuesFrom(map, 1)

\* --------------------------------------------------------------- replies
\* what a call leaves behind: its Result and the three collections
Reply(tag, value, services, reviews, users) ==
    [tag |-> tag, value |-> value, serviceStorage |-> services,
     reviewStorage |-> reviews, userStorage |-> users]

\* Result.Ok(value), the collections as given
Ok(value, services, reviews, users) == Reply("Ok", <<value>>, services, reviews, users)

\* Result.Err(message), nothing written; kind names the message
Err(kind) == Reply(kind, <<>>, serviceStorage, reviewStorage, userStorage)

\* an identifier that is merely not in use now: the first name that is no key
\* of any collection
uuidv4_unusedKey ==
    LET free == Ids \ (DOMAIN serviceStorage \cup DOMAIN reviewStorage
                         \cup DOMAIN userStorage) IN
    {u \in free :
        \A i, j \in 1..Len(IdName) :
            (IdName[i] = u /\ IdName[j] \in free) => i <= j}

\* uuidv4(): an identifier never drawn before (the first unused name)
uuidv4 ==
    {u \in Ids \ issued :
        \A i, j \in 1..Len(IdName) :
            (IdName[i] = u /\ IdName[j] \in Ids \ issued) => i <= j}

\* -------------------------------------------------------------- services
\* !payload.name || !payload.category || ... : some text field is empty
validServicePayload(payload) == \A f \in Fields : payload[f] # ""

\* { id: uuidv4(), createdAt: ic.time(), updatedAt: Opt.None, ...payload }
newServiceRecord(id, payload, t) ==
    [id |-> id, createdAt |-> t, updatedAt |-> None,
     name |-> payload.name, category |-> payload.category,
     provider |-> payload.provider, date |-> payload.date,
     startTime |-> payload.startTime, endTime |-> payload.endTime,
     location |-> payload.location, description |-> payload.description]

\* { ...existingRecord, ...payload, updatedAt: Opt.Some(ic.time()) }
mergeServicePayload(existingRecord, payload, t) ==
    [id |-> existingRecord.id, createdAt |-> existingRecord.createdAt,
     updatedAt |-> Some(t),
     name |-> payload.name, category |-> payload.category,
     provider |-> payload.provider, date |-> payload.date,
     startTime |-> payload.startTime, endTime |-> payload.endTime,
     location |-> payload.location, description |-> payload.description]

\* withLocation with the record stamped as if new
withLocation_restamped(existingRecord, location, t) ==
    [existingRecord EXCEPT !.location = location, !.createdAt = t,
                           !.updatedAt = Some(t)]

\* { ...existingRecord, location, updatedAt: Opt.Some(ic.time()) }
withLocation(existingRecord, location, t) ==
    [existingRecord EXCEPT !.location = location, !.updatedAt = Some(t)]

\* { ...existingRecord, description, updatedAt: Opt.Some(ic.time()) }
withDescription(existingRecord, description, t) ==
    [existingRecord EXCEPT !.description = description, !.updatedAt = Some(t)]

\* existingRecord.provider !== caller.toString() is the refusal
isProvider(existingRecord, caller) == existingRecord.provider = caller

\* addService with the record stored under its name instead of its id
addService_keyedByName(payload, caller, uuid) ==
    IF ~validServicePayload(payload)
    THEN Err("InvalidInput")
    ELSE LET record == newServiceRecord(uuid, payload, now) IN
         Ok(record, insert(serviceStorage, record.name, record),
            reviewStorage, userStorage)

addService(payload, caller, uuid) ==
    IF ~validServicePayload(payload)
    THEN Err("InvalidInput")
    ELSE LET record == newServiceRecord(uuid, payload, now) IN
         Ok(record, insert(serviceStorage, record.id, record),
            reviewStorage, userStorage)

addService_2(payload, caller, uuid) ==
    LET record == newServiceRecord(uuid, payload, now) IN
    Ok(record, insert(serviceStorage, record.id, record), reviewStorage, userStorage)

updateService(id, payload, caller) ==
    IF ~containsKey(serviceStorage, id)
    THEN Err("NotFound")
    ELSE LET existingRecord == serviceStorage[id] IN
         IF ~isProvider(existingRecord, caller)
         THEN Err("Unauthorized")
         ELSE LET updatedRecord == mergeServicePayload(existingRecord, payload, now) IN
              Ok(updatedRecord, insert(serviceStorage, id, updatedRecord),
                 reviewStorage, userStorage)

updateService_2(id, payload, caller) ==
    IF ~containsKey(serviceStorage, id)
    THEN Err("NotFound")
    ELSE LET record == serviceStorage[id]
             updatedRecord == mergeServicePayload(record, payload, now) IN
         Ok(updatedRecord, insert(serviceStorage, record.id, updatedRecord),
            reviewStorage, userStorage)

\* deleteService that also removes the reviews of the service
deleteService_cascading(id, caller) ==
    IF ~containsKey(serviceStorage, id)
    THEN Err("NotFound")
    ELSE LET existingRecord == serviceStorage[id]
             kept == {k \in DOMAIN reviewStorage : reviewStorage[k].serviceId # id}
         IN  IF ~isProvider(existingRecord, caller)
             THEN Err("Unauthorized")
             ELSE Ok(existingRecord, remove(serviceStorage, id),
                     [k \in kept |-> reviewStorage[k]], userStorage)

\* deleteService without the serviceStorage.remove(id)
deleteService_kept(id, caller) ==
    IF ~containsKey(serviceStorage, id)
    THEN Err("NotFound")
    ELSE LET existingRecord == serviceStorage[id] IN
         IF ~isProvider(existingRecord, caller)
         THEN Err("Unauthorized")
         ELSE Ok(existingRecord, serviceStorage, reviewStorage, userStorage)

deleteService(id, caller) ==
    IF ~containsKey(serviceStorage, id)
    THEN Err("NotFound")
    ELSE LET existingRecord == serviceStorage[id] IN
         IF ~isProvider(existingRecord, caller)
         THEN Err("Unauthorized")
         ELSE Ok(existingRecord, remove(serviceStorage, id), reviewStorage, userStorage)

\* match(serviceStorage.remove(id), ...): remove returns the record it removed
deleteService_2(id, caller) ==
    IF ~containsKey(serviceStorage, id)
    THEN Err("NotFound")
    ELSE LET deletedRecord == serviceStorage[id] IN
         Ok(deletedRecord, remove(serviceStorage, id), reviewStorage, userStorage)

updateServiceLocation(id, location, caller) ==
    IF ~containsKey(serviceStorage, id)
    THEN Err("NotFound")
    ELSE LET existingRecord == serviceStorage[id] IN
         IF ~isProvider(existingRecord, caller)
         THEN Err("Unauthorized")
         ELSE LET updatedRecord == withLocation(existingRecord, location, now) IN
              Ok(updatedRecord, insert(serviceStorage, id, updatedRecord),
                 reviewStorage, userStorage)

updateServiceLocation_2(id, location, caller) ==
    IF ~containsKey(serviceStorage, id)
    THEN Err("NotFound")
    ELSE LET record == serviceStorage[id]
             updatedRecord == withLocation(record, location, now) IN
         Ok(updatedRecord, insert(serviceStorage, record.id, updatedRecord),
            reviewStorage, userStorage)

updateServiceDescription(id, description, caller) ==
    IF ~containsKey(serviceStorage, id)
    THEN Err("NotFound")
    ELSE LET existingRecord == serviceStorage[id] IN
         IF ~isProvider(existingRecord, caller)
         THEN Err("Unauthorized")
         ELSE LET updatedRecord == withDescription(existingRecord, description, now) IN
              Ok(updatedRecord, insert(serviceStorage, id, updatedRecord),
                 reviewStorage, userStorage)

updateServiceDescription_2(id, description, caller) ==
    IF ~containsKey(serviceStorage, id)
    THEN Err("NotFound")
    ELSE LET record == serviceStorage[id]
             updatedRecord == withDescription(record, description, now) IN
         Ok(updatedRecord, insert(serviceStorage, record.id, updatedRecord),
            reviewStorage, userStorage)

\* getService(id) over a service collection: both declarations agree
getServiceIn(services, id) ==
    IF ~containsKey(services, id)
    THEN Reply("NotFound", <<>>, services, reviewStorage, userStorage)
    ELSE Reply("Ok", <<services[id]>>, services, reviewStorage, userStorage)

getService(id) == getServiceIn(serviceStorage, id)

\* --------------------------------------------------------------- reviews
isNaN(rating) == rating \notin Int

\* !serviceId || !userId || isNaN(rating) || rating < 0 || rating > 5 || !comment
validReviewPayload(payload) ==
    ~(\/ payload.serviceId = ""
      \/ payload.userId = ""
      \/ isNaN(payload.rating)
      \/ payload.rating < 0
      \/ payload.rating > 5
      \/ payload.comment = "")

\* { id: uuidv4(), createdAt: ic.time(), ...payload }
newReviewRecord(id, payload, t) ==
    [id |-> id, createdAt |-> t, serviceId |-> payload.serviceId,
     userId |-> payload.userId, rating |-> payload.rating,
     comment |-> payload.comment]

\* addReview with the review stored under the service's id instead of its own
addReview_keyedByService(payload, caller, uuid) ==
    IF ~validReviewPayload(payload)
    THEN Err("InvalidInput")
    ELSE LET serviceExists == containsKey(serviceStorage, payload.serviceId) IN
         IF ~serviceExists
         THEN Err("ServiceMissing")
         ELSE LET review == newReviewRecord(uuid, payload, now) IN
              Ok(review, serviceStorage,
                 insert(reviewStorage, review.serviceId, review), userStorage)

addReview(payload, caller, uuid) ==
    IF ~validReviewPayload(payload)
    THEN Err("InvalidInput")
    ELSE LET serviceExists == containsKey(serviceStorage, payload.serviceId) IN
         IF ~serviceExists
         THEN Err("ServiceMissing")
         ELSE LET review == newReviewRecord(uuid, payload, now) IN
              Ok(review, serviceStorage, insert(reviewStorage, review.id, review),
                 userStorage)

addReview_2(payload, caller, uuid) ==
    LET review == newReviewRecord(uuid, payload, now) IN
    Ok(review, serviceStorage, insert(reviewStorage, review.id, review), userStorage)

deleteReview(id, caller) ==
    IF ~containsKey(reviewStorage, id)
    THEN Err("NotFound")
    ELSE LET existingReview == reviewStorage[id] IN
         IF existingReview.userId # caller
         THEN Err("Unauthorized")
         ELSE Ok(existingReview, serviceStorage, remove(reviewStorage, id), userStorage)

deleteReview_2(id, caller) ==
    IF ~containsKey(reviewStorage, id)
    THEN Err("NotFound")
    ELSE LET deletedReview == reviewStorage[id] IN
         Ok(deletedReview, serviceStorage, remove(reviewStorage, id), userStorage)

\* getReview(id): both declarations agree
getReview(id) ==
    IF ~containsKey(reviewStorage, id)
    THEN Err("NotFound")
    ELSE Ok(reviewStorage[id], serviceStorage, reviewStorage, userStorage)

\* reviewsOf without the filter on serviceId
reviewsOf_unfiltered(serviceId) == values(reviewStorage)

\* reviewStorage.values().filter(review => review.serviceId === serviceId)
reviewsOf(serviceId) ==
    LET matches(review) == review.serviceId = serviceId
    IN  SelectSeq(values(reviewStorage), matches)

getServiceReviews(serviceId) ==
    Ok(reviewsOf(serviceId), serviceStorage, reviewStorage, userStorage)

RECURSIVE reduceSum(_, _)
\* reviews.reduce((sum, review) => sum + review.rating, 0), from index i on
reduceSum(reviews, i) ==
    IF i > Len(reviews) THEN 0 ELSE reviews[i].rating + reduceSum(reviews, i + 1)

\* totalRating / reviews.length, kept exact as the pair of dividend and divisor
quotient(totalRating, length) == [dividend |-> totalRating, divisor |-> length]

getServiceAverageRating(serviceId) ==
    LET reviews == reviewsOf(serviceId) IN
    IF Len(reviews) = 0
    THEN Err("NoReviews")
    ELSE LET totalRating == reduceSum(reviews, 1)
             averageRating == quotient(totalRating, Len(reviews))
         IN  Ok(averageRating, serviceStorage, reviewStorage, userStorage)

\* ----------------------------------------------------------------- users
\* { id: uuidv4(), createdAt: ic.time(), updatedAt: Opt.None, ...payload }
newUser(id, payload, t) ==
    [id |-> id, createdAt |-> t, updatedAt |-> None,
     username |-> payload.username, email |-> payload.email]

createUser(payload, caller, uuid) ==
    IF payload.username = "" \/ payload.email = ""
    THEN Err("InvalidInput")
    ELSE LET user == newUser(uuid, payload, now) IN
         Ok(user, serviceStorage, reviewStorage, insert(userStorage, user.id, user))

createUser_2(payload, caller, uuid) ==
    LET id == uuid
        user == newUser(id, payload, now) IN
    Ok(user, serviceStorage, reviewStorage, insert(userStorage, id, user))

\* deleteUser with the removal ahead of the authorization check
deleteUser_removedFirst(id, caller) ==
    IF ~containsKey(userStorage, id)
    THEN Err("NotFound")
    ELSE LET existingUser == userStorage[id] IN
         IF existingUser.id # caller
         THEN Reply("Unauthorized", <<>>, serviceStorage, reviewStorage,
                    remove(userStorage, id))
         ELSE Ok(existingUser, serviceStorage, reviewStorage, remove(userStorage, id))

deleteUser(id, caller) ==
    IF ~containsKey(userStorage, id)
    THEN Err("NotFound")
    ELSE LET existingUser == userStorage[id] IN
         IF existingUser.id # caller
         THEN Err("Unauthorized")
         ELSE Ok(existingUser, serviceStorage, reviewStorage, remove(userStorage, id))

deleteUser_2(id, caller) ==
    IF ~containsKey(userStorage, id)
    THEN Err("NotFound")
    ELSE LET deletedUser == userStorage[id] IN
         Ok(deletedUser, serviceStorage, reviewStorage, remove(userStorage, id))

\* { ...user, ...payload, updatedAt: Opt.Some(ic.time()) }
mergeUserPayload(user, payload, t) ==
    [user EXCEPT !.username = payload.username, !.email = payload.email,
                 !.updatedAt = Some(t)]

updateUser(id, payload, caller) ==
    IF ~containsKey(userStorage, id)
    THEN Err("NotFound")
    ELSE LET user == userStorage[id]
             updatedUser == mergeUserPayload(user, payload, now) IN
         Ok(updatedUser, serviceStorage, reviewStorage,
            insert(userStorage, user.id, updatedUser))

\* ----------------------------------------------------------------- calls
\* One call: the clock moves on (ic.time() is later at every call, capped at
\* MaxTime), the reply's collections are the canister's, and the uuid the
\* call drew, if it drew one, is spent.
commit(reply, drawn) ==
    /\ now < MaxTime
    /\ now' = now + 1
    /\ serviceStorage' = reply.serviceStorage
    /\ reviewStorage' = reply.reviewStorage
    /\ userStorage' = reply.userStorage
    /\ issued' = issued \cup drawn
    /\ removed' = removed \cup (DOMAIN serviceStorage \ DOMAIN reply.serviceStorage)

\* a creating call draws its uuid after validation, so only when it succeeds
drawnBy(reply, uuid) == IF reply.tag = "Ok" THEN {uuid} ELSE {}

AddService ==
    \E payload \in ServicePayloads, caller \in Principals, uuid \in uuidv4 :
        LET reply == addService(payload, caller, uuid) IN commit(reply, drawnBy(reply, uuid))

AddService_2 ==
    \E payload \in ServicePayloads, caller \in Principals, uuid \in uuidv4 :
        LET reply == addService_2(payload, caller, uuid) IN commit(reply, drawnBy(reply, uuid))

UpdateService ==
    \E id \in Ids, payload \in ServicePayloads, caller \in Principals:
        LET reply == updateService(id, payload, caller) IN commit(reply, {})

UpdateService_2 ==
    \E id \in Ids, payload \in ServicePayloads, caller \in Principals:
        LET reply == updateService_2(id, payload, caller) IN commit(reply, {})

DeleteService ==
    \E id \in Ids, caller \in Principals:
        LET reply == deleteService(id, caller) IN commit(reply, {})

DeleteService_2 ==
    \E id \in Ids, caller \in Principals:
        LET reply == deleteService_2(id, caller) IN commit(reply, {})

UpdateServiceLocation ==
    \E id \in Ids, location \in Locations, caller \in Principals:
        LET reply == updateServiceLocation(id, location, caller) IN commit(reply, {})

UpdateServiceLocation_2 ==
    \E id \in Ids, location \in Locations, caller \in Principals:
        LET reply == updateServiceLocation_2(id, location, caller) IN commit(reply, {})

UpdateServiceDescription ==
    \E id \in Ids, description \in Descriptions, caller \in Principals:
        LET reply == updateServiceDescription(id, description, caller) IN commit(reply, {})

UpdateServiceDescription_2 ==
    \E id \in Ids, description \in Descriptions, caller \in Principals:
        LET reply == updateServiceDescription_2(id, description, caller) IN commit(reply, {})

AddReview ==
    \E payload \in ReviewPayloads, caller \in Principals, uuid \in uuidv4 :
        LET reply == addReview(payload, caller, uuid) IN commit(reply, drawnBy(reply, uuid))

AddReview_2 ==
    \E payload \in ReviewPayloads, caller \in Principals, uuid \in uuidv4 :
        LET reply == addReview_2(payload, caller, uuid) IN commit(reply, drawnBy(reply, uuid))

DeleteReview ==
    \E id \in Ids, caller \in Principals:
        LET reply == deleteReview(id, caller) IN commit(reply, {})

DeleteReview_2 ==
    \E id \in Ids, caller \in Principals:
        LET reply == deleteReview_2(id, caller) IN commit(reply, {})

CreateUser ==
    \E payload \in UserPayloads, caller \in Principals, uuid \in uuidv4 :
        LET reply == createUser(payload, caller, uuid) IN commit(reply, drawnBy(reply, uuid))

CreateUser_2 ==
    \E payload \in UserPayloads, caller \in Principals, uuid \in uuidv4 :
        LET reply == createUser_2(payload, caller, uuid) IN commit(reply, drawnBy(reply, uuid))

DeleteUser ==
    \E id \in Ids, caller \in Principals:
        LET reply == deleteUser(id, caller) IN commit(reply, {})

DeleteUser_2 ==
    \E id \in Ids, caller \in Principals:
        LET reply == deleteUser_2(id, caller) IN commit(reply, {})

UpdateUser ==
    \E id \in Ids, payload \in UserPayloads, caller \in Principals:
        LET reply == updateUser(id, payload, caller) IN commit(reply, {})

\* ----------------------------------------------------------- specification
Init ==
    /\ serviceStorage = <<>>
    /\ reviewStorage = <<>>
    /\ userStorage = <<>>
    /\ now = 0
    /\ issued = {}
    /\ removed = {}

Next ==
    \/ AddService
    \/ AddService_2
    \/ UpdateService
    \/ UpdateService_2
    \/ DeleteService
    \/ DeleteService_2
    \/ UpdateServiceLocation
    \/ UpdateServiceLocation_2
    \/ UpdateServiceDescription
    \/ UpdateServiceDescription_2
    \/ AddReview
    \/ AddReview_2
    \/ DeleteReview
    \/ DeleteReview_2
    \/ CreateUser
    \/ CreateUser_2
    \/ DeleteUser
    \/ DeleteUser_2
    \/ UpdateUser

Spec == Init /\ [][Next]_vars

\* ------------------------------------------------------------ properties
\* the collections a reply leaves are the collections it found
leavesUnchanged(reply) ==
    /\ reply.serviceStorage = serviceStorage
    /\ reply.reviewStorage = reviewStorage
    /\ reply.userStorage = userStorage

\* the replies of every mutating service call on id by caller, both declarations
mutatingServiceReplies(id, caller) ==
    {updateService(id, payload, caller) : payload \in ServicePayloads}
      \cup {updateService_2(id, payload, caller) : payload \in ServicePayloads}
      \cup {updateServiceLocation(id, location, caller) : location \in Locations}
      \cup {updateServiceLocation_2(id, location, caller) : location \in Locations}
      \cup {updateServiceDescription(id, description, caller) :
              description \in Descriptions}
      \cup {updateServiceDescription_2(id, description, caller) :
              description \in Descriptions}
      \cup {deleteService(id, caller), deleteService_2(id, caller)}

\* the same calls, first declarations only (lines 70-111 and 157-203)
authorizingServiceReplies(id, caller) ==
    {updateService(id, payload, caller) : payload \in ServicePayloads}
      \cup {updateServiceLocation(id, location, caller) : location \in Locations}
      \cup {updateServiceDescription(id, description, caller) :
              description \in Descriptions}
      \cup {deleteService(id, caller)}

refusesStrangers(replies(_, _)) ==
    \A id \in Ids, caller \in Principals :
        \A reply \in replies(id, caller) :
            IF containsKey(serviceStorage, id)
            THEN caller # serviceStorage[id].provider
                   => reply.tag = "Unauthorized" /\ leavesUnchanged(reply)
            ELSE reply.tag = "NotFound"

\* C1: in every reachable state, every mutating service call (updateService,
\* updateServiceLocation, updateServiceDescription, deleteService) on a stored
\* service by a caller other than its provider replies Unauthorized and leaves
\* the collections unchanged; on an absent id it replies NotFound.
C1_StrangersRefused == refusesStrangers(mutatingServiceReplies)

\* what the first declarations alone do: they refuse
FirstDeclarationsRefuse == refusesStrangers(authorizingServiceReplies)

C3_AddThenGet ==
    \A payload \in ServicePayloads, caller \in Principals, uuid \in uuidv4 :
        validServicePayload(payload) =>
            \A reply \in {addService(payload, caller, uuid),
                          addService_2(payload, caller, uuid)} :
                /\ reply.tag = "Ok"
                /\ LET got == getServiceIn(reply.serviceStorage, reply.value[1].id)
                   IN  got.tag = "Ok" /\ got.value = reply.value

\* addService has stored a valid payload, and getService returns the record
C3_Witness ==
    \E id \in DOMAIN serviceStorage :
        /\ serviceStorage[id].updatedAt = None
        /\ validServicePayload(serviceStorage[id])
        /\ getService(id).value = <<serviceStorage[id]>>

ServiceRecordFields == Fields \cup {"id", "createdAt", "updatedAt"}

\* the reply's service collection differs from the present one at most in the
\* fields `touched` of the record under id
changesOnly(reply, id, touched) ==
    /\ DOMAIN reply.serviceStorage = DOMAIN serviceStorage
    /\ \A k \in DOMAIN serviceStorage \ {id} :
         reply.serviceStorage[k] = serviceStorage[k]
    /\ \A f \in ServiceRecordFields \ touched :
         reply.serviceStorage[id][f] = serviceStorage[id][f]
    /\ reply.reviewStorage = reviewStorage
    /\ reply.userStorage = userStorage

\* C4: a successful updateServiceLocation changes only location and updatedAt
\* of the record under id, a successful updateServiceDescription only
\* description and updatedAt, a successful updateService neither id nor
\* createdAt; none of them changes another service record.
C4_UpdateFrame ==
    \A id \in Ids, caller \in Principals :
        /\ \A location \in Locations :
             \A reply \in {updateServiceLocation(id, location, caller),
                           updateServiceLocation_2(id, location, caller)} :
                 reply.tag = "Ok" =>
                     /\ changesOnly(reply, id, {"location", "updatedAt"})
                     /\ reply.serviceStorage[id].location = location
        /\ \A description \in Descriptions :
             \A reply \in {updateServiceDescription(id, description, caller),
                           updateServiceDescription_2(id, description, caller)} :
                 reply.tag = "Ok" =>
                     /\ changesOnly(reply, id, {"description", "updatedAt"})
                     /\ reply.serviceStorage[id].description = description
        /\ \A payload \in ServicePayloads :
             \A reply \in {updateService(id, payload, caller),
                           updateService_2(id, payload, caller)} :
                 reply.tag = "Ok" =>
                     changesOnly(reply, id, Fields \cup {"updatedAt"})

\* updateServiceLocation has acted on a service created at an earlier time
C4_Witness ==
    \E id \in DOMAIN serviceStorage :
        /\ serviceStorage[id].location \in Locations
        /\ serviceStorage[id].updatedAt # None
        /\ serviceStorage[id].createdAt < serviceStorage[id].updatedAt[1]

\* C5: no call stores a review with a rating below 0 or above 5, so every
\* stored review has a rating in [0,5]; and addReview with rating 0 or 5
\* succeeds when the other fields are valid and the service is stored.
C5_RatingsInRange ==
    [][/\ \A id \in DOMAIN reviewStorage' :
            reviewStorage'[id].rating >= 0 /\ reviewStorage'[id].rating <= 5
       /\ \A payload \in ReviewPayloads, caller \in Principals, uuid \in uuidv4 :
            \A reply \in {addReview(payload, caller, uuid),
                          addReview_2(payload, caller, uuid)} :
                (/\ payload.rating \in {0, 5}
                 /\ payload.userId # ""
                 /\ payload.comment # ""
                 /\ containsKey(serviceStorage, payload.serviceId))
                  => reply.tag = "Ok"]_vars

\* what the first declaration alone does: it keeps ratings in range
FirstAddReviewValidates ==
    \A payload \in ReviewPayloads, caller \in Principals, uuid \in uuidv4 :
        LET reply == addReview(payload, caller, uuid) IN
        /\ (payload.rating < 0 \/ payload.rating > 5)
             => reply.tag = "InvalidInput" /\ leavesUnchanged(reply)
        /\ ~containsKey(serviceStorage, payload.serviceId)
             => reply.tag \in {"InvalidInput", "ServiceMissing"}
                  /\ leavesUnchanged(reply)

\* C6: no call stores a review whose serviceId names no stored service: every
\* review that enters the review collection names a service that is in the
\* service collection at that call.
C6_ReviewedServiceStored ==
    [][\A id \in DOMAIN reviewStorage' \ DOMAIN reviewStorage :
           containsKey(serviceStorage, reviewStorage'[id].serviceId)]_vars

RECURSIVE ratingSum(_)
\* the sum of the ratings of the stored reviews with the given ids
ratingSum(ids) ==
    IF ids = {} THEN 0
    ELSE LET id == CHOOSE x \in ids : TRUE
         IN  reviewStorage[id].rating + ratingSum(ids \ {id})

\* C7: getServiceAverageRating(S) replies NoReviews exactly when no stored
\* review has serviceId S; otherwise it succeeds with the mean of the ratings
\* of exactly the stored reviews with serviceId S: the returned quotient times
\* their number is the sum of their ratings.
C7_AverageIsMean ==
    \A S \in Ids \cup ReviewedIds \cup {""} :
        LET stored == {id \in DOMAIN reviewStorage : reviewStorage[id].serviceId = S}
            reply == getServiceAverageRating(S)
        IN  /\ reply.tag = "NoReviews" <=> stored = {}
            /\ stored # {} =>
                 /\ reply.tag = "Ok"
                 /\ reply.value[1].divisor = Cardinality(stored)
                 /\ reply.value[1].dividend = ratingSum(stored)
            /\ leavesUnchanged(reply)

\* two reviews of one service with different ratings are stored beside a
\* review of another service
C7_Witness ==
    \E a, b, c \in DOMAIN reviewStorage :
        /\ a # b
        /\ reviewStorage[a].serviceId = reviewStorage[b].serviceId
        /\ reviewStorage[a].rating # reviewStorage[b].rating
        /\ reviewStorage[c].serviceId # reviewStorage[a].serviceId

\* C8: every service record is stored under the key equal to its own id, so
\* no two records share an id, and no id that deleteService has removed is a
\* key of the service collection again.
C8_ServiceIdsUnique ==
    /\ \A id \in DOMAIN serviceStorage : serviceStorage[id].id = id
    /\ \A a, b \in DOMAIN serviceStorage :
         serviceStorage[a].id = serviceStorage[b].id => a = b
    /\ removed \cap DOMAIN serviceStorage = {}

\* the latest call created a service, after a service had been deleted
C8_Witness ==
    /\ removed # {}
    /\ \E id \in DOMAIN serviceStorage : serviceStorage[id].createdAt + 1 = now

\* every reply of every call that can be made in the present state
allReplies ==
    UNION {mutatingServiceReplies(id, caller) : id \in Ids, caller \in Principals}
      \cup {addService(payload, caller, uuid) :
              payload \in ServicePayloads, caller \in Principals, uuid \in uuidv4}
      \cup {addService_2(payload, caller, uuid) :
              payload \in ServicePayloads, caller \in Principals, uuid \in uuidv4}
      \cup {addReview(payload, caller, uuid) :
              payload \in ReviewPayloads, caller \in Principals, uuid \in uuidv4}
      \cup {addReview_2(payload, caller, uuid) :
              payload \in ReviewPayloads, caller \in Principals, uuid \in uuidv4}
      \cup {deleteReview(id, caller) : id \in Ids, caller \in Principals}
      \cup {deleteReview_2(id, caller) : id \in Ids, caller \in Principals}
      \cup {createUser(payload, caller, uuid) :
              payload \in UserPayloads, caller \in Principals, uuid \in uuidv4}
      \cup {createUser_2(payload, caller, uuid) :
              payload \in UserPayloads, caller \in Principals, uuid \in uuidv4}
      \cup {deleteUser(id, caller) : id \in Ids, caller \in Principals}
      \cup {deleteUser_2(id, caller) : id \in Ids, caller \in Principals}
      \cup {updateUser(id, payload, caller) :
              id \in Ids, payload \in UserPayloads, caller \in Principals}
      \cup {getService(id) : id \in Ids}
      \cup {getReview(id) : id \in Ids}
      \cup {getServiceAverageRating(id) : id \in Ids}

Failures == {"InvalidInput", "NotFound", "ServiceMissing", "Unauthorized", "NoReviews"}

\* C9: every call that replies with a failure leaves the service, review and
\* user collections as it found them, and a reply is a failure or Ok.
C9_FailureChangesNothing ==
    \A reply \in allReplies :
        /\ reply.tag \in Failures \cup {"Ok"}
        /\ reply.tag \in Failures => leavesUnchanged(reply) /\ reply.value = <<>>

\* records are stored, none was ever deleted, and the latest call stamped
\* none of them: it was a call that failed
C9_Witness ==
    LET stamps == {serviceStorage[id].createdAt : id \in DOMAIN serviceStorage}
                    \cup {reviewStorage[id].createdAt : id \in DOMAIN reviewStorage}
                    \cup {userStorage[id].createdAt : id \in DOMAIN userStorage}
                    \cup UNION {{serviceStorage[id].updatedAt[i] :
                                   i \in DOMAIN serviceStorage[id].updatedAt} :
                                id \in DOMAIN serviceStorage}
                    \cup UNION {{userStorage[id].updatedAt[i] :
                                   i \in DOMAIN userStorage[id].updatedAt} :
                                id \in DOMAIN userStorage}
    IN  /\ DOMAIN serviceStorage # {}
        /\ DOMAIN reviewStorage # {}
        /\ issued = DOMAIN serviceStorage \cup DOMAIN reviewStorage
                      \cup DOMAIN userStorage
        /\ \A t \in stamps : t + 1 < now

\* the step is a successful deleteReview(id), by either declaration
deleteReviewStep(id) ==
    \E caller \in Principals :
        \E reply \in {deleteReview(id, caller), deleteReview_2(id, caller)} :
            /\ reply.tag = "Ok"
            /\ serviceStorage' = reply.serviceStorage
            /\ reviewStorage' = reply.reviewStorage
            /\ userStorage' = reply.userStorage

\* C10: in every step, a stored review is stored unchanged under the same id
\* afterwards, unless the step is the deleteReview call that removes it.
C10_ReviewsImmutable ==
    [][\A id \in DOMAIN reviewStorage :
           \/ /\ containsKey(reviewStorage', id)
              /\ reviewStorage'[id] = reviewStorage[id]
           \/ /\ ~containsKey(reviewStorage', id)
              /\ deleteReviewStep(id)]_vars

\* a review is stored that two later calls have left as it was
C10_Witness ==
    \E id \in DOMAIN reviewStorage :
        /\ reviewStorage[id].createdAt + 2 < now
        /\ DOMAIN serviceStorage # {}

\* C11: a step in which deleteService removes a service leaves the review
\* collection unchanged, so getServiceReviews and getServiceAverageRating of
\* the removed id reply after the step what they replied before it; and both
\* declarations of deleteService reply with the review collection they found.
C11_DeleteDoesNotCascade ==
    [][/\ \A id \in removed' \ removed :
            /\ reviewStorage' = reviewStorage
            /\ getServiceReviews(id)'.value = getServiceReviews(id).value
            /\ getServiceAverageRating(id)'.tag = getServiceAverageRating(id).tag
            /\ getServiceAverageRating(id)'.value = getServiceAverageRating(id).value
       /\ \A id \in Ids, caller \in Principals :
            \A reply \in {deleteService(id, caller), deleteService_2(id, caller)} :
                reply.reviewStorage = reviewStorage]_vars

\* a service has been deleted and a review naming it is still stored, listed
\* by getServiceReviews and averaged by getServiceAverageRating
C11_Witness ==
    \E id \in removed :
        /\ ~containsKey(serviceStorage, id)
        /\ \E k \in DOMAIN reviewStorage : reviewStorage[k].serviceId = id
        /\ Len(getServiceReviews(id).value[1]) > 0
        /\ getServiceAverageRating(id).tag = "Ok"

\* the reply leaves the service under id with another provider than it has now
changesProvider(reply, id) ==
    /\ containsKey(reply.serviceStorage, id)
    /\ reply.serviceStorage[id].provider # serviceStorage[id].provider

\* the calls `replies` obey the provider's rule in this step:
\*  - a call that changes the provider of a stored service is a successful
\*    updateService on that service by the provider stored before the call,
\*    and no method but the mutating service methods changes a provider;
\*  - once the step has changed the provider of a service, every mutating
\*    call on it by the former provider is Unauthorized and every one by the
\*    new provider succeeds.
providerRule(replies(_, _)) ==
    /\ \A id \in DOMAIN serviceStorage, target \in Ids, caller \in Principals :
         \A reply \in replies(target, caller) :
             changesProvider(reply, id) =>
                 /\ target = id
                 /\ caller = serviceStorage[id].provider
                 /\ reply.tag = "Ok"
                 /\ \E payload \in ServicePayloads :
                        reply \in {updateService(id, payload, caller),
                                   updateService_2(id, payload, caller)}
    /\ \A id \in DOMAIN serviceStorage :
         \A reply \in allReplies :
             changesProvider(reply, id) =>
                 reply \in UNION {mutatingServiceReplies(id, caller) :
                                    caller \in Principals}
    /\ \A id \in DOMAIN serviceStorage \cap DOMAIN serviceStorage' :
         \A former, new \in Principals :
             (/\ former = serviceStorage[id].provider
              /\ new = serviceStorage'[id].provider
              /\ former # new) =>
                 /\ \A reply \in replies(id, former)' : reply.tag = "Unauthorized"
                 /\ \A reply \in replies(id, new)' : reply.tag = "Ok"

\* C12: the provider of a stored service changes only by a successful
\* updateService called by the provider stored before the call; after the
\* change the former provider's mutating calls on the service are
\* Unauthorized and the new provider's succeed.
C12_ProviderChangesByProvider == [][providerRule(mutatingServiceReplies)]_vars

\* what the first declarations alone do: they keep the provider's rule
FirstDeclarationsKeepProvider == [][providerRule(authorizingServiceReplies)]_vars

\* Refuted on purpose: no step changes the provider of a stored service.
\* Its violation shows that the provider rule above is exercised.
ProviderNeverChanges ==
    [][\A id \in DOMAIN serviceStorage \cap DOMAIN serviceStorage' :
           serviceStorage'[id].provider = serviceStorage[id].provider]_vars

====
